---- MODULE Spec2Model ----
(***************************************************************************)
(* Model of the WPU basket dashboard: the unifier of the daily, minute and *)
(* tick feeds (main_app.unify_price_series), the basket pricer             *)
(* (wpu.processing.calculate_wpu_price), the range filters                 *)
(* (main_app.filter_by_range, wpu.processing.filter_by_zoom) and the       *)
(* paper-trading session of main_app.py.                                   *)
(*                                                                         *)
(* Time is counted in steps of the fixed resolution (freq='1min'); a       *)
(* calendar day holds SlotsPerDay steps.  All frames are timezone-aware in *)
(* one zone (main_app.py:191 localizes every feed to UTC), so a timestamp  *)
(* is an integer number of steps since midnight of day 0.  Prices, rates   *)
(* and weights are integers; float rounding is outside the model.          *)
(***************************************************************************)
EXTENDS Integers, Sequences, FiniteSets, TLC

\* steps of the fixed-resolution index per calendar day (floor('D') / ceil('D'))
SlotsPerDay == 3
\* latest timestamp a feed row may carry
MaxTime == 4
\* rows loaded over the three feeds together
MaxRows == 3
\* prices are drawn from 1..MaxPrice
MaxPrice == 2

VARIABLES
    pc,          \* position of the run: "load", "ready", "done", ...
    daily_df,    \* daily feed: sequence of [datetime, price]
    minute_df,   \* minute feed
    tick_df,     \* tick feed
    full,        \* the unified series returned by unify_price_series
    raised,      \* the exception the call ended with, "" when it returned
    exchange_cols, \* currency columns of exchange_df
    exchange_df, \* rates: sequence of [datetime, rate], rate a function of the columns
    weights_cols,  \* currency columns of weights_df
    weights_df,  \* weight table: sequence of [datetime, weight], in file order
    currencies,  \* the currencies argument of calculate_wpu_price
    weights_ff,  \* the weights reindexed onto exchange_df's timestamps
    result,      \* the frame calculate_wpu_price returns: [datetime, price]
    cash_balance,  \* st.session_state.cash_balance
    wpu_balance,   \* st.session_state.wpu_balance
    ledger,      \* st.session_state.ledger
    request,     \* the button pressed in this rerun: [side, amount, price]
    message,     \* what the rerun showed: st.error or st.success
    view_df,     \* the frame the range filter is applied to: sequence of [datetime, price]
    hist         \* the filter calls made so far, each with its locals and its result

unifyVars == <<daily_df, minute_df, tick_df, full>>
pricerVars == <<exchange_cols, exchange_df, weights_cols, weights_df, currencies,
                weights_ff, result>>
sessionVars == <<cash_balance, wpu_balance, ledger, request, message>>
filterVars == <<view_df, hist>>
vars == <<pc, raised, unifyVars, pricerVars, sessionVars, filterVars>>

Times == 0..MaxTime
Prices == 1..MaxPrice

Row(t, p) == [datetime |-> t, price |-> p]

\* an absent cell (NaN) is the empty set, a present cell v is {v}
NaN == {}
Some(v) == {v}
Val(c) == CHOOSE v \in c : TRUE

SetMin(S) == CHOOSE x \in S : \A y \in S : x <= y
SetMax(S) == CHOOSE x \in S : \A y \in S : x >= y

Datetimes(df) == {df[i].datetime : i \in DOMAIN df}

\* Timestamp.floor('D') and Timestamp.ceil('D')
floorD(t) == (t \div SlotsPerDay) * SlotsPerDay
ceilD(t) == IF t % SlotsPerDay = 0 THEN t ELSE floorD(t) + SlotsPerDay

\* d['datetime'].min() / .max() over the frames that are not empty
min_dt(d, m, t) == SetMin(Datetimes(d) \cup Datetimes(m) \cup Datetimes(t))
max_dt(d, m, t) == SetMax(Datetimes(d) \cup Datetimes(m) \cup Datetimes(t))

\* pd.date_range(start=min_dt.floor('D'), end=max_dt.ceil('D'), freq='1min')
master_idx(d, m, t) ==
    LET lo == floorD(min_dt(d, m, t))
        hi == ceilD(max_dt(d, m, t))
    IN  [i \in 1..(hi - lo + 1) |-> lo + i - 1]

\* daily.set_index('datetime').resample('1min').ffill(): one row per step from
\* the first to the last daily sample, each holding the last sample at or before it
ResampleFfill(df) ==
    IF df = <<>> THEN <<>>
    ELSE LET lo == SetMin(Datetimes(df))
             hi == SetMax(Datetimes(df))
             At(s) == LET k == SetMax({i \in DOMAIN df : df[i].datetime <= s})
                      IN  df[k].price
         IN  [i \in 1..(hi - lo + 1) |-> Row(lo + i - 1, At(lo + i - 1))]

RECURSIVE Flatten(_)
Flatten(ss) == IF ss = <<>> THEN <<>> ELSE Head(ss) \o Flatten(Tail(ss))

\* left.merge(right[['datetime', col]], on='datetime', how='left'): every left row
\* once per right row with its datetime, in the right frame's order; once with an
\* absent cell when the right frame has none
MergeLeft(left, right, col) ==
    LET Matches(l) == SelectSeq(right, LAMBDA r : r.datetime = l.datetime)
        Expand(l) == IF Matches(l) = <<>>
                     THEN <<[l EXCEPT ![col] = NaN]>>
                     ELSE [j \in 1..Len(Matches(l)) |->
                              [l EXCEPT ![col] = Some(Matches(l)[j].price)]]
    IN  Flatten([i \in 1..Len(left) |-> Expand(left[i])])

\* a.combine_first(b): a where a is present, else b
combine_first(a, b) == IF a # NaN THEN a ELSE b

\* the composition with minute and tick swapped (mutant of ComposePrice)
ComposePriceMinuteFirst(r) ==
    combine_first(combine_first(r.price_minute, r.price_tick), r.price_daily)

\* master['price'] = price_tick.combine_first(price_minute).combine_first(price_daily)
ComposePrice(r) ==
    combine_first(combine_first(r.price_tick, r.price_minute), r.price_daily)

\* the body of unify_price_series once min_dt and max_dt exist
UnifyMerged(d, m, t) ==
    LET idx == master_idx(d, m, t)
        master == [i \in 1..Len(idx) |->
                      [datetime |-> idx[i], price_daily |-> NaN,
                       price_minute |-> NaN, price_tick |-> NaN]]
        m1 == MergeLeft(master, ResampleFfill(d), "price_daily")
        m2 == MergeLeft(m1, m, "price_minute")
        m3 == MergeLeft(m2, t, "price_tick")
        kept == SelectSeq(m3, LAMBDA r : ComposePrice(r) # NaN)
    IN  [i \in 1..Len(kept) |-> Row(kept[i].datetime, Val(ComposePrice(kept[i])))]

\* min(... for d in (daily, minute, tick) if not d.empty) has nothing to take
\* the minimum of when every frame is empty
AllEmpty(d, m, t) == d = <<>> /\ m = <<>> /\ t = <<>>

TotalRows == Len(daily_df) + Len(minute_df) + Len(tick_df)

\* the part of the state a run does not touch
IdleUnify == daily_df = <<>> /\ minute_df = <<>> /\ tick_df = <<>> /\ full = <<>>
IdlePricer ==
    /\ exchange_cols = {} /\ exchange_df = <<>>
    /\ weights_cols = {} /\ weights_df = <<>>
    /\ currencies = NaN /\ weights_ff = <<>> /\ result = <<>>

IdleSession ==
    /\ cash_balance = 0 /\ wpu_balance = 0 /\ ledger = <<>>
    /\ request = <<>> /\ message = ""

IdleFilter == view_df = <<>> /\ hist = <<>>

InitUnify ==
    /\ pc = "load"
    /\ raised = ""
    /\ IdleUnify
    /\ IdlePricer
    /\ IdleSession
    /\ IdleFilter

\* a row of the daily file; the file is in time order, one row per timestamp
LoadDaily ==
    /\ pc = "load"
    /\ TotalRows < MaxRows
    /\ \E t \in Times, p \in Prices :
          /\ \A i \in DOMAIN daily_df : daily_df[i].datetime < t
          /\ daily_df' = Append(daily_df, Row(t, p))
    /\ UNCHANGED <<pc, raised, minute_df, tick_df, full, pricerVars, sessionVars, filterVars>>

\* a row of the minute file; rows may repeat a timestamp
LoadMinute ==
    /\ pc = "load"
    /\ TotalRows < MaxRows
    /\ \E t \in Times, p \in Prices :
          /\ \A i \in DOMAIN minute_df : minute_df[i].datetime <= t
          /\ minute_df' = Append(minute_df, Row(t, p))
    /\ UNCHANGED <<pc, raised, daily_df, tick_df, full, pricerVars, sessionVars, filterVars>>

\* a row of the tick file; rows may repeat a timestamp
LoadTick ==
    /\ pc = "load"
    /\ TotalRows < MaxRows
    /\ \E t \in Times, p \in Prices :
          /\ \A i \in DOMAIN tick_df : tick_df[i].datetime <= t
          /\ tick_df' = Append(tick_df, Row(t, p))
    /\ UNCHANGED <<pc, raised, daily_df, minute_df, full, pricerVars, sessionVars, filterVars>>

\* full = unify_price_series(daily_df, minute_df, tick_df)
Unify ==
    /\ pc = "load"
    /\ pc' = "done"
    /\ IF AllEmpty(daily_df, minute_df, tick_df)
       THEN full' = <<>> /\ raised' = "ValueError"
       ELSE full' = UnifyMerged(daily_df, minute_df, tick_df) /\ raised' = ""
    /\ UNCHANGED <<daily_df, minute_df, tick_df, pricerVars, sessionVars, filterVars>>

NextUnify == LoadDaily \/ LoadMinute \/ LoadTick \/ Unify

SpecUnify == InitUnify /\ [][NextUnify]_vars

(***************************************************************************)
(* Claims about the unifier                                                *)
(***************************************************************************)
Returned == pc = "done" /\ raised = ""

\* the prices a feed reports at exactly the slot s
ValuesAt(df, s) == {df[i].price : i \in {j \in DOMAIN df : df[j].datetime = s}}

\* the daily level holding at s: the latest daily sample at or before s
DailyHolds(s, p) ==
    \E k \in DOMAIN daily_df :
        /\ daily_df[k].datetime <= s
        /\ daily_df[k].price = p
        /\ \A j \in DOMAIN daily_df :
              ~(daily_df[k].datetime < daily_df[j].datetime /\ daily_df[j].datetime <= s)

\* C1: every row of the unified series carries the tick value when the tick feed
\* has a value at the row's slot, otherwise the minute value when the minute feed
\* has one, otherwise the daily value; a timestamp in both the tick and the minute
\* feed therefore never shows the minute value.
C1_Precedence ==
    Returned =>
        \A i \in DOMAIN full :
            LET s == full[i].datetime
                p == full[i].price
            IN  IF ValuesAt(tick_df, s) # {} THEN p \in ValuesAt(tick_df, s)
                ELSE IF ValuesAt(minute_df, s) # {} THEN p \in ValuesAt(minute_df, s)
                ELSE DailyHolds(s, p)

\* a returned series with a slot that the tick, the minute and the daily feed all
\* report, with three different values
C1_Witness ==
    /\ Returned
    /\ \E i \in DOMAIN full :
          LET s == full[i].datetime
          IN  /\ ValuesAt(tick_df, s) # {}
              /\ ValuesAt(minute_df, s) # {}
              /\ ValuesAt(tick_df, s) \cap ValuesAt(minute_df, s) = {}
              /\ \E p \in Prices : DailyHolds(s, p)

\* C2: every slot of the union time span at or after the earliest input timestamp
\* is a row of the unified series; the span is taken at its narrowest here, from
\* the earliest to the latest timestamp of any input.
C2_NoGap ==
    Returned =>
        \A s \in min_dt(daily_df, minute_df, tick_df)
                  ..max_dt(daily_df, minute_df, tick_df) :
            \E i \in DOMAIN full : full[i].datetime = s

\* C3: unification never ends in an error because of empty inputs; with every
\* input empty it returns the empty series, and with only the daily input it
\* returns the daily values forward-filled from sample to sample.
C3_EmptyFeedResilience ==
    pc = "done" =>
        /\ raised = ""
        /\ AllEmpty(daily_df, minute_df, tick_df) => full = <<>>
        /\ (daily_df # <<>> /\ minute_df = <<>> /\ tick_df = <<>>) =>
              /\ \A i \in DOMAIN full : DailyHolds(full[i].datetime, full[i].price)
              /\ \A s \in SetMin(Datetimes(daily_df))..SetMax(Datetimes(daily_df)) :
                    \E i \in DOMAIN full : full[i].datetime = s

\* the value of the last row of a feed at the slot s
LastAt(df, s) == df[SetMax({i \in DOMAIN df : df[i].datetime = s})].price

\* C12: when a feed has several rows with one timestamp only the last of them
\* counts: the unified series has one row per timestamp, the timestamps strictly
\* ascending, and at a slot the tick feed (or, without a tick, the minute feed)
\* reports, the row carries the value of that feed's last row for the slot.
C12_LastDuplicateWins ==
    Returned =>
        /\ \A i \in DOMAIN full : \A j \in DOMAIN full :
              i < j => full[i].datetime < full[j].datetime
        /\ \A i \in DOMAIN full :
              LET s == full[i].datetime
              IN  IF ValuesAt(tick_df, s) # {} THEN full[i].price = LastAt(tick_df, s)
                  ELSE ValuesAt(minute_df, s) # {}
                          => full[i].price = LastAt(minute_df, s)

(***************************************************************************)
(* The basket pricer: wpu.processing.calculate_wpu_price                   *)
(*                                                                         *)
(* Rates are counted in hundredths and weights in percent, so a price is   *)
(* kept in units of 1/10000: rate * weight stands for rate * weight / 100. *)
(* Weight rows carry midnight timestamps (load_wpu_weights parses dates).  *)
(***************************************************************************)
Currency == {"USD", "EUR"}
RateValues == {95, 110}
WeightValues == {40, 60}

Days == 0..(MaxTime \div SlotsPerDay)
Midnight(d) == d * SlotsPerDay

\* arithmetic on cells: an absent operand gives an absent result
MulCell(a, b) == IF a = NaN \/ b = NaN THEN NaN ELSE Some(Val(a) * Val(b))
AddCell(a, b) == IF a = NaN \/ b = NaN THEN NaN ELSE Some(Val(a) + Val(b))

\* the frame left in file order (mutant of sort_index)
KeepFileOrder(df) == df

\* weights_df.set_index('datetime').sort_index()
sort_index(df) ==
    LET Rank(i) == 1 + Cardinality({j \in DOMAIN df :
                        \/ df[j].datetime < df[i].datetime
                        \/ df[j].datetime = df[i].datetime /\ j < i})
    IN  [k \in 1..Len(df) |-> df[CHOOSE i \in DOMAIN df : Rank(i) = k]]

\* .reindex(exchange_df['datetime'], method='ffill').reset_index(): per target
\* timestamp the last row of the sorted index at or before it, else a row of NaN
reindex_ffill(sorted, targets, cols) ==
    [i \in 1..Len(targets) |->
        LET K == {k \in DOMAIN sorted : sorted[k].datetime <= targets[i].datetime}
        IN  [datetime |-> targets[i].datetime,
             weight |-> IF K = {} THEN [c \in cols |-> NaN]
                        ELSE [c \in cols |-> Some(sorted[SetMax(K)].weight[c])]]]

\* if currencies is None: currencies = [c for c in weights_df.columns if c != 'datetime']
DefaultCurrencies(arg, wcols) == IF arg = NaN THEN wcols ELSE Val(arg)

\* a term that adds the weight instead of scaling by it (mutant of Term)
TermAdded(rate, weight) == AddCell(rate, weight)

\* exchange_df[c] * weights_ff[c] / 100
Term(rate, weight) == MulCell(rate, weight)

\* price_series = 0; for c in currencies: if c in exchange_df.columns and
\* c in weights_ff.columns: price_series += exchange_df[c] * weights_ff[c] / 100
RECURSIVE WeightedSum(_, _, _)
WeightedSum(cs, rate, weight) ==
    IF cs = {} THEN Some(0)
    ELSE LET c == CHOOSE x \in cs : TRUE
             rest == WeightedSum(cs \ {c}, rate, weight)
         IN  IF c \in DOMAIN rate /\ c \in DOMAIN weight
             THEN AddCell(rest, Term(Some(rate[c]), weight[c]))
             ELSE rest

PricerRows == Len(exchange_df) + Len(weights_df)

InitPricer ==
    /\ pc = "load"
    /\ raised = ""
    /\ IdleUnify
    /\ IdleSession
    /\ IdleFilter
    /\ exchange_cols \in SUBSET Currency \ {{}}
    /\ weights_cols \in SUBSET Currency \ {{}}
    /\ exchange_df = <<>>
    /\ weights_df = <<>>
    /\ currencies = NaN
    /\ weights_ff = <<>>
    /\ result = <<>>

\* a row of the rate series, in time order
LoadRate ==
    /\ pc = "load"
    /\ PricerRows < MaxRows
    /\ \E t \in Times, r \in [exchange_cols -> RateValues] :
          /\ \A i \in DOMAIN exchange_df : exchange_df[i].datetime <= t
          /\ exchange_df' = Append(exchange_df, [datetime |-> t, rate |-> r])
    /\ UNCHANGED <<pc, raised, unifyVars, sessionVars, filterVars, exchange_cols, weights_cols,
                   weights_df, currencies, weights_ff, result>>

\* a row of the weight table: one row per effective date, in any order
LoadWeight ==
    /\ pc = "load"
    /\ PricerRows < MaxRows
    /\ \E d \in Days, w \in [weights_cols -> WeightValues] :
          /\ \A i \in DOMAIN weights_df : weights_df[i].datetime # Midnight(d)
          /\ weights_df' = Append(weights_df, [datetime |-> Midnight(d), weight |-> w])
    /\ UNCHANGED <<pc, raised, unifyVars, sessionVars, filterVars, exchange_cols, exchange_df,
                   weights_cols, currencies, weights_ff, result>>

\* result = calculate_wpu_price(exchange_df, weights_df, currencies); exchange_df
\* carries the default index 0..n-1, which reset_index() gives weights_ff as well,
\* so the product of the two columns pairs the rows by position
Price ==
    /\ pc = "load"
    /\ pc' = "done"
    /\ \E arg \in {NaN} \cup {Some(S) : S \in SUBSET Currency} :
          LET cur == DefaultCurrencies(arg, weights_cols)
              ff == reindex_ffill(sort_index(weights_df), exchange_df, weights_cols)
          IN  /\ currencies' = arg
              /\ weights_ff' = ff
              /\ result' = [i \in 1..Len(exchange_df) |->
                    [datetime |-> exchange_df[i].datetime,
                     price |-> WeightedSum(cur, exchange_df[i].rate, ff[i].weight)]]
    /\ UNCHANGED <<raised, unifyVars, sessionVars, filterVars, exchange_cols, exchange_df,
                   weights_cols, weights_df>>

NextPricer == LoadRate \/ LoadWeight \/ Price

SpecPricer == InitPricer /\ [][NextPricer]_vars

(***************************************************************************)
(* Claims about the basket pricer                                          *)
(***************************************************************************)
Priced == pc = "done" /\ result # <<>>

\* the calendar date of a timestamp
DateOf(t) == t \div SlotsPerDay

\* the weight rows whose effective date is not after the date of timestamp t
Applicable(t) == {k \in DOMAIN weights_df : DateOf(weights_df[k].datetime) <= DateOf(t)}

\* row k is the applicable row with the greatest effective date
IsAsOfRow(k, t) ==
    /\ k \in Applicable(t)
    /\ \A j \in Applicable(t) : weights_df[j].datetime <= weights_df[k].datetime

\* the currencies the call sums over: the argument, by default the weight columns
Cur == IF currencies = NaN THEN weights_cols ELSE Val(currencies)

\* C4: for every rate timestamp the pricer uses the weight row with the greatest
\* effective date that is not after the timestamp's calendar date, never a later
\* row, whatever the order of the rows in the weight table.
C4_WeightAsOf ==
    Priced =>
        \A i \in DOMAIN exchange_df : \A c \in weights_cols :
            LET t == exchange_df[i].datetime
            IN  IF Applicable(t) = {} THEN weights_ff[i].weight[c] = NaN
                ELSE \E k \in DOMAIN weights_df :
                        /\ IsAsOfRow(k, t)
                        /\ weights_ff[i].weight[c] = Some(weights_df[k].weight[c])

\* a weight table that lists the later effective date first, with another USD
\* weight, and a rate timestamp after that later midnight that got the later row
C4_Witness ==
    /\ Priced
    /\ Len(weights_df) = 2
    /\ "USD" \in weights_cols
    /\ weights_df[1].datetime > weights_df[2].datetime
    /\ weights_df[1].weight["USD"] # weights_df[2].weight["USD"]
    /\ \E i \in DOMAIN exchange_df :
          /\ exchange_df[i].datetime > weights_df[1].datetime
          /\ weights_ff[i].weight["USD"] = Some(weights_df[1].weight["USD"])

\* C5: at every rate timestamp earlier than the first weight row the price is
\* absent, never a computed number, for every currencies argument and every set
\* of rate columns.
C5_AbsentBeforeFirstWeight ==
    Priced =>
        \A i \in DOMAIN exchange_df :
            (weights_df # <<>> /\ Applicable(exchange_df[i].datetime) = {})
                => result[i].price = NaN

\* C6 as stated: at every rate timestamp with an applicable weight row the price
\* is the sum over every currency of the currencies argument of rate * weight / 100,
\* which is no number when a currency has no rate or no weight column.
C6_SumOverEveryCurrency ==
    Priced =>
        \A i \in DOMAIN exchange_df : \A k \in DOMAIN weights_df :
            IsAsOfRow(k, exchange_df[i].datetime) =>
                LET r == exchange_df[i].rate
                    w == weights_df[k].weight
                    T(c) == IF c \in Cur THEN r[c] * w[c] ELSE 0
                IN  IF Cur \subseteq (exchange_cols \cap weights_cols)
                    THEN result[i].price = Some(T("USD") + T("EUR"))
                    ELSE result[i].price = NaN

\* C6 amended: at every rate timestamp with an applicable weight row the price is
\* the sum of rate * weight / 100 over the currencies of the currencies argument
\* that are a column of both the rates and the weight table.
C6_BasketArithmetic ==
    Priced =>
        \A i \in DOMAIN exchange_df : \A k \in DOMAIN weights_df :
            IsAsOfRow(k, exchange_df[i].datetime) =>
                LET r == exchange_df[i].rate
                    w == weights_df[k].weight
                    T(c) == IF c \in Cur /\ c \in exchange_cols /\ c \in weights_cols
                            THEN r[c] * w[c] ELSE 0
                IN  result[i].price = Some(T("USD") + T("EUR"))

\* rates USD=1.10, EUR=0.95 with weights USD=60, EUR=40 and the default
\* currencies priced at 1.04
C6_Witness ==
    /\ Priced
    /\ currencies = NaN
    /\ \E i \in DOMAIN exchange_df : \E k \in DOMAIN weights_df :
          /\ IsAsOfRow(k, exchange_df[i].datetime)
          /\ exchange_df[i].rate = [c \in Currency |-> IF c = "USD" THEN 110 ELSE 95]
          /\ weights_df[k].weight = [c \in Currency |-> IF c = "USD" THEN 60 ELSE 40]
          /\ result[i].price = Some(10400)

(***************************************************************************)
(* The paper-trading session of main_app.py: one Buy or Sell per rerun     *)
(***************************************************************************)
\* st.session_state.cash_balance = 100000.0
StartingCash == 100000
\* the amount field holds 0..MaxAmount (min_value=0.0)
MaxAmount == 2
\* trades executed in one session
MaxTrades == 3

Amounts == 0..MaxAmount
\* latest_price = float(full['price'].iloc[-1]), read again in every rerun
LatestPrices == {30000, 50000}

InsufficientCash == "Insufficient cash to buy."
InsufficientWPU == "Insufficient WPU to sell."

\* a Buy guard that also refuses a cost equal to the cash (mutant of BuyRejected)
BuyRejectedAtEqual(cost, cash) == cost >= cash

\* if cost > st.session_state.cash_balance: st.error(...)
BuyRejected(cost, cash) == cost > cash

\* if amt > st.session_state.wpu_balance: st.error(...)
SellRejected(amt, wpu) == amt > wpu

\* the dict appended to the ledger (its wall-clock 'ts' is left out)
LedgerEntry(side, amt, price, cash, wpu) ==
    [side |-> side, amount |-> amt, price |-> price,
     cash_after |-> cash, wpu_after |-> wpu]

InitSession ==
    /\ pc = "session"
    /\ raised = ""
    /\ IdleUnify
    /\ IdlePricer
    /\ IdleFilter
    /\ cash_balance = StartingCash
    /\ wpu_balance = 0
    /\ ledger = <<>>
    /\ request = <<>>
    /\ message = ""

\* if st.button("Buy"): ...
Buy ==
    /\ pc = "session"
    /\ Len(ledger) < MaxTrades
    /\ \E amt \in Amounts, latest_price \in LatestPrices :
          LET cost == amt * latest_price
          IN  /\ request' = [side |-> "BUY", amount |-> amt, price |-> latest_price]
              /\ IF BuyRejected(cost, cash_balance)
                 THEN /\ message' = InsufficientCash
                      /\ UNCHANGED <<cash_balance, wpu_balance, ledger>>
                 ELSE /\ cash_balance' = cash_balance - cost
                      /\ wpu_balance' = wpu_balance + amt
                      /\ ledger' = Append(ledger,
                             LedgerEntry("BUY", amt, latest_price,
                                         cash_balance - cost, wpu_balance + amt))
                      /\ message' = "Bought"
    /\ UNCHANGED <<pc, raised, unifyVars, pricerVars, filterVars>>

\* if st.button("Sell"): ...
Sell ==
    /\ pc = "session"
    /\ Len(ledger) < MaxTrades
    /\ \E amt \in Amounts, latest_price \in LatestPrices :
          LET proceeds == amt * latest_price
          IN  /\ request' = [side |-> "SELL", amount |-> amt, price |-> latest_price]
              /\ IF SellRejected(amt, wpu_balance)
                 THEN /\ message' = InsufficientWPU
                      /\ UNCHANGED <<cash_balance, wpu_balance, ledger>>
                 ELSE /\ cash_balance' = cash_balance + proceeds
                      /\ wpu_balance' = wpu_balance - amt
                      /\ ledger' = Append(ledger,
                             LedgerEntry("SELL", amt, latest_price,
                                         cash_balance + proceeds, wpu_balance - amt))
                      /\ message' = "Sold"
    /\ UNCHANGED <<pc, raised, unifyVars, pricerVars, filterVars>>

NextSession == Buy \/ Sell

SpecSession == InitSession /\ [][NextSession]_vars

(***************************************************************************)
(* Claims about the trading session                                        *)
(***************************************************************************)
\* the request of a step is refused by the rule of the claim
Refused ==
    \/ request'.side = "BUY" /\ request'.amount * request'.price > cash_balance
    \/ request'.side = "SELL" /\ request'.amount > wpu_balance

NothingExecuted ==
    /\ cash_balance' = cash_balance
    /\ wpu_balance' = wpu_balance
    /\ ledger' = ledger
    /\ message' \in {InsufficientCash, InsufficientWPU}

\* exactly one entry is appended, recording the trade and the balances after it
OneEntryAppended ==
    /\ Len(ledger') = Len(ledger) + 1
    /\ SubSeq(ledger', 1, Len(ledger)) = ledger
    /\ ledger'[Len(ledger')] =
          [side |-> request'.side, amount |-> request'.amount, price |-> request'.price,
           cash_after |-> cash_balance', wpu_after |-> wpu_balance']

\* the balances move by the trade: cash by amount * price, holdings by amount
Settled ==
    LET a == request'.amount
        v == request'.amount * request'.price
    IN  IF request'.side = "BUY"
        THEN cash_balance' = cash_balance - v /\ wpu_balance' = wpu_balance + a
        ELSE cash_balance' = cash_balance + v /\ wpu_balance' = wpu_balance - a

\* C9 as stated: a refused request leaves cash, holdings and ledger unchanged,
\* and an accepted trade changes both balances and appends exactly one entry.
C9_AcceptedChangesBothBalances ==
    [][IF Refused THEN NothingExecuted
       ELSE /\ OneEntryAppended
            /\ cash_balance' # cash_balance
            /\ wpu_balance' # wpu_balance]_vars

\* C9 amended: a BUY whose cost exceeds the cash and a SELL whose amount exceeds
\* the holdings leave cash, holdings and ledger unchanged; every other request
\* moves cash by amount * price and holdings by amount (so a trade of amount 0
\* leaves both balances as they were) and appends exactly one ledger entry.
C9_RejectOrExecute ==
    [][IF Refused THEN NothingExecuted
       ELSE OneEntryAppended /\ Settled]_vars

\* a SELL refused for want of holdings, and a BUY refused for want of cash, each
\* after trades that were executed
C9_Witness ==
    /\ pc = "session"
    /\ ledger # <<>>
    /\ \/ /\ message = InsufficientWPU
          /\ request.side = "SELL"
          /\ wpu_balance > 0
          /\ request.amount > wpu_balance
       \/ /\ message = InsufficientCash
          /\ request.side = "BUY"
          /\ cash_balance > 0
          /\ request.amount * request.price > cash_balance

(***************************************************************************)
(* The range filters: main_app.filter_by_range and                         *)
(* wpu.processing.filter_by_zoom                                           *)
(*                                                                         *)
(* A timestamp is day * SlotsPerDay + slot, the day counted from           *)
(* 2023-01-01 in the proleptic Gregorian calendar (earlier days negative). *)
(***************************************************************************)
IsLeap(y) == (y % 4 = 0 /\ y % 100 # 0) \/ y % 400 = 0

DaysInMonth(y, m) ==
    IF m = 2 THEN (IF IsLeap(y) THEN 29 ELSE 28)
    ELSE IF m \in {4, 6, 9, 11} THEN 30 ELSE 31

\* days from 0001-01-01 to the first day of year y
DaysBeforeYear(y) ==
    365 * (y - 1) + ((y - 1) \div 4) - ((y - 1) \div 100) + ((y - 1) \div 400)

RECURSIVE DaysBeforeMonth(_, _)
DaysBeforeMonth(y, m) ==
    IF m = 1 THEN 0 ELSE DaysBeforeMonth(y, m - 1) + DaysInMonth(y, m - 1)

\* day 0 of the model is 2023-01-01
EpochDays == DaysBeforeYear(2023)

\* the day number of a calendar date, and the calendar date of a day number
DayNumber(y, m, d) == DaysBeforeYear(y) - EpochDays + DaysBeforeMonth(y, m) + d - 1

YearOf(n) ==
    LET a == n + EpochDays
    IN  CHOOSE y \in ((a \div 366) + 1)..((a \div 365) + 1) :
            DaysBeforeYear(y) <= a /\ a < DaysBeforeYear(y + 1)
MonthOf(n) ==
    LET y == YearOf(n)
    IN  CHOOSE m \in 1..12 :
            /\ DayNumber(y, m, 1) <= n
            /\ n < DayNumber(y, m, 1) + DaysInMonth(y, m)
DayOf(n) == n - DayNumber(YearOf(n), MonthOf(n), 1) + 1

At(y, m, d, slot) == DayNumber(y, m, d) * SlotsPerDay + slot

\* pd.Timedelta(days=n), pd.Timedelta(weeks=n)
TimedeltaDays(n) == n * SlotsPerDay
TimedeltaWeeks(n) == 7 * n * SlotsPerDay

\* t - pd.DateOffset(months=n): n calendar months back, the day of the month
\* clamped to the length of the month reached, the time of day kept
MinusMonths(t, n) ==
    LET day == t \div SlotsPerDay
        total == YearOf(day) * 12 + (MonthOf(day) - 1) - n
        y == total \div 12
        m == (total % 12) + 1
        d == IF DayOf(day) <= DaysInMonth(y, m) THEN DayOf(day) ELSE DaysInMonth(y, m)
    IN  At(y, m, d, t % SlotsPerDay)

\* t - pd.DateOffset(years=n)
MinusYears(t, n) == MinusMonths(t, 12 * n)

\* range_options of the dashboard
RangeOptions ==
    {"Prior Day", "1d", "5d", "1w", "1m", "3m", "6m", "1y", "3y", "5y", "10y", "All"}

\* the labels a caller may pass: the dashboard's options and a label that is no
\* range token at all
Labels == RangeOptions \cup {"max"}

\* the if/elif chain of filter_by_range: [start, end] for a label, now being
\* df['datetime'].max()
RangeWindow(frame, label) ==
    LET now == SetMax(Datetimes(frame))
        Back(n) == [start |-> now - TimedeltaDays(n), end |-> now]
    IN  CASE label = "Prior Day" ->
               [start |-> floorD(now) - TimedeltaDays(1), end |-> floorD(now)]
          [] label = "1d" -> Back(1)
          [] label = "5d" -> Back(5)
          [] label = "1w" -> [start |-> now - TimedeltaWeeks(1), end |-> now]
          [] label = "1m" -> Back(30)
          [] label = "3m" -> Back(90)
          [] label = "6m" -> Back(182)
          [] label = "1y" -> Back(365)
          [] label = "3y" -> Back(365 * 3)
          [] label = "5y" -> Back(365 * 5)
          [] label = "10y" -> Back(365 * 10)
          [] OTHER -> [start |-> SetMin(Datetimes(frame)), end |-> now]

\* a mask that leaves the end of the window out (mutant of InWindow)
InWindowEndExcluded(t, start, end) == t >= start /\ t < end

\* mask = (df['datetime'] >= start) & (df['datetime'] <= end)
InWindow(t, start, end) == t >= start /\ t <= end

\* return df.loc[mask].copy()
filter_by_range(frame, label) ==
    LET w == RangeWindow(frame, label)
    IN  SelectSeq(frame, LAMBDA r : InWindow(r.datetime, w.start, w.end))

\* zoom.endswith(...) and int(zoom[:-1]): the last character of a label and the
\* number before it; "Prior Day" ends in y and "Prior Da" is no number
LastChar(zoom) ==
    CASE zoom \in {"1d", "5d"} -> "d"
      [] zoom = "1w" -> "w"
      [] zoom \in {"1m", "3m", "6m"} -> "m"
      [] zoom \in {"1y", "3y", "5y", "10y", "Prior Day"} -> "y"
      [] zoom = "max" -> "x"
      [] OTHER -> "l"
IntPrefix(zoom) ==
    CASE zoom \in {"1d", "1w", "1m", "1y"} -> Some(1)
      [] zoom \in {"3m", "3y"} -> Some(3)
      [] zoom \in {"5d", "5y"} -> Some(5)
      [] zoom = "6m" -> Some(6)
      [] zoom = "10y" -> Some(10)
      [] OTHER -> NaN

\* int(zoom[:-1]) raises ValueError in a branch that parses no number
ZoomRaises(zoom) == LastChar(zoom) \in {"d", "w", "m", "y"} /\ IntPrefix(zoom) = NaN

\* the start filter_by_zoom computes from the wall clock now
ZoomStart(frame, zoom, now) ==
    LET n == Val(IntPrefix(zoom))
    IN  CASE LastChar(zoom) = "d" -> now - TimedeltaDays(n)
          [] LastChar(zoom) = "w" -> now - TimedeltaWeeks(n)
          [] LastChar(zoom) = "m" -> MinusMonths(now, n)
          [] LastChar(zoom) = "y" -> MinusYears(now, n)
          [] OTHER -> SetMin(Datetimes(frame))

\* filtered = df[df['datetime'] >= start].copy()
filter_by_zoom(frame, zoom, now) ==
    LET start == ZoomStart(frame, zoom, now)
    IN  SelectSeq(frame, LAMBDA r : r.datetime >= start)

\* filter calls made one after the other on the frame
MaxCalls == 2

\* the timestamps a point of the series may carry
FilterTimes ==
    {At(2023, 2, 28, 1), At(2023, 3, 1, 0), At(2023, 3, 30, 1),
     At(2023, 3, 31, 0), At(2023, 3, 31, 1)}
\* the filters read only 'datetime'; the points all carry one price
FilterPrices == {1}
\* the wall-clock times pd.Timestamp.now may return
WallClock == {At(2023, 3, 31, 1), At(2023, 4, 2, 0)}

InitFilter ==
    /\ pc = "load"
    /\ raised = ""
    /\ IdleUnify
    /\ IdlePricer
    /\ IdleSession
    /\ view_df = <<>>
    /\ hist = <<>>

\* a point of the merged series, in time order
LoadPoint ==
    /\ pc = "load"
    /\ Len(view_df) < MaxRows
    /\ \E t \in FilterTimes, p \in FilterPrices :
          /\ \A i \in DOMAIN view_df : view_df[i].datetime < t
          /\ view_df' = Append(view_df, Row(t, p))
    /\ UNCHANGED <<pc, raised, unifyVars, pricerVars, sessionVars, hist>>

\* view_df = filter_by_range(view_df, range_choice); the dashboard stops before
\* it filters an empty series
FilterByRange ==
    /\ pc \in {"load", "filtered"}
    /\ view_df # <<>>
    /\ Len(hist) < MaxCalls
    /\ \E label \in Labels :
          LET w == RangeWindow(view_df, label)
              out == filter_by_range(view_df, label)
          IN  /\ view_df' = out
              /\ hist' = Append(hist,
                    [fn |-> "filter_by_range", label |-> label,
                     now |-> SetMax(Datetimes(view_df)),
                     start |-> Some(w.start), end |-> Some(w.end),
                     input |-> view_df, output |-> out, raised |-> ""])
    /\ pc' = "filtered"
    /\ UNCHANGED <<raised, unifyVars, pricerVars, sessionVars>>

\* the script runs again on the same series with the same range_choice:
\* view_df = filter_by_range(full, range_choice)
FilterByRangeAgain ==
    /\ pc = "filtered"
    /\ hist # <<>>
    /\ Len(hist) < MaxCalls
    /\ LET last == hist[Len(hist)]
           w == RangeWindow(last.input, last.label)
           out == filter_by_range(last.input, last.label)
       IN  /\ last.fn = "filter_by_range"
           /\ view_df' = out
           /\ hist' = Append(hist,
                 [fn |-> "filter_by_range", label |-> last.label,
                  now |-> SetMax(Datetimes(last.input)),
                  start |-> Some(w.start), end |-> Some(w.end),
                  input |-> last.input, output |-> out, raised |-> ""])
    /\ UNCHANGED <<pc, raised, unifyVars, pricerVars, sessionVars>>

\* view_df = filter_by_zoom(view_df, zoom), the wall clock reading now; a call
\* that raises ends the run
FilterByZoom ==
    /\ pc \in {"load", "filtered"}
    /\ view_df # <<>>
    /\ Len(hist) < MaxCalls
    /\ \E zoom \in Labels, now \in WallClock :
          IF ZoomRaises(zoom)
          THEN /\ raised' = "ValueError"
               /\ pc' = "done"
               /\ hist' = Append(hist,
                     [fn |-> "filter_by_zoom", label |-> zoom, now |-> now,
                      start |-> NaN, end |-> NaN,
                      input |-> view_df, output |-> <<>>, raised |-> "ValueError"])
               /\ UNCHANGED view_df
          ELSE LET out == filter_by_zoom(view_df, zoom, now)
               IN  /\ view_df' = out
                   /\ hist' = Append(hist,
                         [fn |-> "filter_by_zoom", label |-> zoom, now |-> now,
                          start |-> Some(ZoomStart(view_df, zoom, now)), end |-> NaN,
                          input |-> view_df, output |-> out, raised |-> ""])
                   /\ pc' = "done"
                   /\ UNCHANGED raised
    /\ UNCHANGED <<unifyVars, pricerVars, sessionVars>>

\* filter_by_zoom called again on the same series with the same zoom, the wall
\* clock having moved on
FilterByZoomAgain ==
    /\ pc = "done"
    /\ raised = ""
    /\ hist # <<>>
    /\ Len(hist) < MaxCalls
    /\ LET last == hist[Len(hist)]
       IN  /\ last.fn = "filter_by_zoom"
           /\ \E now \in WallClock :
                 LET out == filter_by_zoom(last.input, last.label, now)
                 IN  /\ now > last.now
                     /\ view_df' = out
                     /\ hist' = Append(hist,
                           [fn |-> "filter_by_zoom", label |-> last.label, now |-> now,
                            start |-> Some(ZoomStart(last.input, last.label, now)),
                            end |-> NaN,
                            input |-> last.input, output |-> out, raised |-> ""])
    /\ UNCHANGED <<pc, raised, unifyVars, pricerVars, sessionVars>>

NextFilter ==
    LoadPoint \/ FilterByRange \/ FilterByRangeAgain \/ FilterByZoom \/ FilterByZoomAgain

SpecFilter == InitFilter /\ [][NextFilter]_vars

(***************************************************************************)
(* Claims about the range filters                                          *)
(***************************************************************************)
RangeCalls == {i \in DOMAIN hist : hist[i].fn = "filter_by_range"}

DayOfStamp(t) == t \div SlotsPerDay

\* C7: with the label "1m" and a reference time on March 31 the window starts on
\* the last day of February: a calendar month back, clamped at the month end, not
\* thirty days back.
C7_CalendarMonthOffset ==
    \A i \in DOMAIN hist :
        LET ref == DayOfStamp(hist[i].now)
            from == DayOfStamp(Val(hist[i].start))
        IN  (hist[i].label = "1m" /\ MonthOf(ref) = 3 /\ DayOf(ref) = 31) =>
                /\ YearOf(from) = YearOf(ref)
                /\ MonthOf(from) = 2
                /\ DayOf(from) = DaysInMonth(YearOf(ref), 2)

\* the length in days of the window a label asks for; "All" is wider than any
WindowDays(label) ==
    CASE label = "1d" -> 1
      [] label = "5d" -> 5
      [] label = "1w" -> 7
      [] label = "1m" -> 30
      [] label = "3m" -> 90
      [] label = "6m" -> 182
      [] label = "1y" -> 365
      [] label = "3y" -> 1095
      [] label = "5y" -> 1825
      [] label = "10y" -> 3650
      [] OTHER -> 3651

\* label b is label a again, or both are window labels and b is at least as wide
SameOrWider(b, a) ==
    \/ b = a
    \/ a # "Prior Day" /\ b # "Prior Day" /\ WindowDays(b) >= WindowDays(a)

C10_PriorDayHalfOpen ==
    \A i \in RangeCalls :
        hist[i].label = "Prior Day" =>
            LET midnight == DayOfStamp(hist[i].now) * SlotsPerDay
            IN  hist[i].output =
                    SelectSeq(hist[i].input,
                              LAMBDA r : /\ midnight - SlotsPerDay <= r.datetime
                                         /\ r.datetime < midnight)

\* C11: the filter takes its reference from the series, not from the wall clock:
\* two runs of one filter on the same series with the same label, at different
\* wall-clock times, return the same sub-series.
C11_SameSeriesSameResult ==
    \A i \in DOMAIN hist : \A j \in DOMAIN hist :
        (/\ hist[i].fn = hist[j].fn
         /\ hist[i].label = hist[j].label
         /\ hist[i].input = hist[j].input)
            => hist[i].output = hist[j].output

\* the labels that name a window of N days, weeks, months or years
WindowTokens == {"1d", "5d", "1w", "1m", "3m", "6m", "1y", "3y", "5y", "10y"}

\* a label the called filter does not recognize: no window token, and not
\* "Prior Day" where that label has a meaning (filter_by_range)
Unrecognized(fn, label) ==
    /\ label \notin WindowTokens
    /\ ~(fn = "filter_by_range" /\ label = "Prior Day")

\* C13: with "All" or a label that is no recognized range token ("Prior Day"
\* passed to the zoom filter included) the filter raises no error and returns the
\* full input series unchanged.
C13_UnrecognizedReturnsAll ==
    \A i \in DOMAIN hist :
        Unrecognized(hist[i].fn, hist[i].label) =>
            /\ hist[i].raised = ""
            /\ hist[i].output = hist[i].input

====
